---------------------------- MODULE Spec2Model ----------------------------
(***************************************************************************)
(* State-machine model of the VideoPlayer component                        *)
(* (src/react-video-player/index.tsx).                                     *)
(*                                                                         *)
(* One action is one event of the page: a DOM event dispatched to the      *)
(* component's handlers, a notification of the <video> element, the        *)
(* settlement of a play() promise, the firing of a timeout, the passing of *)
(* time, or the unmount.  An event runs its handlers against the values    *)
(* captured by the last render (the closure `r`), batches the state        *)
(* setters, re-renders and runs the effects whose dependencies changed.    *)
(*                                                                         *)
(* Numbers: volumes are hundredths (0.5 is 50), times are whole seconds,   *)
(* progress is a whole percent; the input sets below are chosen so that    *)
(* every quotient the code computes is exact.                              *)
(***************************************************************************)
EXTENDS Integers, FiniteSets, Sequences, TLC

VARIABLES
    autoPlay,            \* prop autoPlay (line 10)
    mounted,             \* the component is mounted
    listeners,           \* notifications the component is subscribed to
    isPlaying,           \* useState(autoPlay)
    progress,            \* useState(0)
    volume,              \* useState(0.5), in hundredths
    isMuted,             \* useState(false)
    duration,            \* useState(0)
    currentTime,         \* useState(0)
    isControlsVisible,   \* useState(true)
    controlsTimeoutRef,  \* useRef(null): id of the last timeout installed
    timers,              \* live timeouts of the host: [id, left, isPlaying]
    video,               \* the <video> element behind videoRef
    playPromises,        \* unsettled promises returned by video.play()
    lastCommand,         \* playback command the last event sent to the video
    lastSeeks,           \* positions the last event assigned to video.currentTime
    lastEvent,           \* name of the last event (history)
    onlyPointerInput,    \* no click or slider change since mount (history)
    everPlayFailed,      \* a play() rejection has been delivered (history)
    timeInTenths,        \* argument of formatTime, in tenths of a second
    timeText             \* what formatTime returned for it, <<>> before the call

vars == <<autoPlay, mounted, listeners, isPlaying, progress, volume, isMuted,
          duration, currentTime, isControlsVisible, controlsTimeoutRef, timers,
          video, playPromises, lastCommand, lastSeeks, lastEvent,
          onlyPointerInput, everPlayFailed, timeInTenths, timeText>>

---------------------------------------------------------------------------
(* Bounds and input sets *)

\* Most play() promises that may be unsettled at once.
MaxPending == 2

\* The delay of the hide timeout, in ms (line 117).
HideDelay == 3000

\* useState(0.5) (line 14), in hundredths.
InitialVolume == 50

\* controlsTimeoutRef.current = null (line 19).
NoTimeout == 0

\* video.duration before the metadata is loaded is NaN; so is every
\* quotient computed from it.
NaN == 0 - 1

\* Values of the volume slider (min 0, max 1, step 0.01), in hundredths.
Volumes == {0, 50, 100}

\* Values of the scrub slider (min 0, max 100).
Percents == {0, 50, 100}

\* Durations a media resource may report, in seconds.
Durations == {120}

\* Playback positions the resource may report, in seconds.
Times == {0, 60, 120}

\* Largest argument of formatTime below the hour-long ones, in tenths of a
\* second.
MaxTenths == 1300

\* Arguments of formatTime: every tenth of a second up to MaxTenths, and
\* some of an hour and more.
FormatInputs == 0..MaxTenths \cup {35990, 35999, 36000, 37250, 72050}

\* Amounts of time that pass in one step, in ms.
TickSteps == {1500, 3000}

Notifications == {"timeupdate", "loadedmetadata", "ended"}

---------------------------------------------------------------------------
(* The state as one record, so that handlers are functions on it *)

State ==
    [isPlaying |-> isPlaying, progress |-> progress, volume |-> volume,
     isMuted |-> isMuted, duration |-> duration, currentTime |-> currentTime,
     isControlsVisible |-> isControlsVisible,
     controlsTimeoutRef |-> controlsTimeoutRef, timers |-> timers,
     video |-> video, playPromises |-> playPromises,
     lastCommand |-> lastCommand, lastSeeks |-> lastSeeks]

Install(s) ==
    /\ isPlaying' = s.isPlaying
    /\ progress' = s.progress
    /\ volume' = s.volume
    /\ isMuted' = s.isMuted
    /\ duration' = s.duration
    /\ currentTime' = s.currentTime
    /\ isControlsVisible' = s.isControlsVisible
    /\ controlsTimeoutRef' = s.controlsTimeoutRef
    /\ timers' = s.timers
    /\ video' = s.video
    /\ playPromises' = s.playPromises
    /\ lastCommand' = s.lastCommand
    /\ lastSeeks' = s.lastSeeks

---------------------------------------------------------------------------
(* The media element *)

\* video.play(): returns a promise that settles later.
videoPlay(f) ==
    [f EXCEPT !.playPromises.open = @ + 1, !.lastCommand = "play"]

\* video.pause(): playback stops and the unsettled play() promises are
\* rejected; their rejection callbacks run later.
videoPause(f) ==
    [f EXCEPT !.video.playing = FALSE,
              !.playPromises = [open |-> 0, aborted |-> @.aborted + @.open],
              !.lastCommand = "pause"]

\* video.currentTime = t: the element seeks to t.
videoSeek(f, t) ==
    [f EXCEPT !.video.currentTime = t, !.lastSeeks = @ \cup {t}]

\* a / b * 100 as the code computes it; NaN when b is NaN.
Percent(a, b) == IF b = NaN \/ a = NaN THEN NaN ELSE (a * 100) \div b

\* p / 100 * d; NaN when d is NaN.
TargetTime(p, d) == IF d = NaN THEN NaN ELSE (p * d) \div 100

---------------------------------------------------------------------------
(* Effects (lines 51-67) *)

\* Body of useEffect(..., [isPlaying]).
playbackEffect(f) ==
    IF f.isPlaying THEN videoPlay(f) ELSE videoPause(f)

\* Faulty variant of volumeEffect: the mute flag is not applied.
volumeEffect_IgnoreMute(f) ==
    [f EXCEPT !.video.volume = f.volume]

\* Body of useEffect(..., [volume, isMuted]).
volumeEffect(f) ==
    [f EXCEPT !.video.volume = IF f.isMuted THEN 0 ELSE f.volume]

\* Re-render after an event: r is the state of the previous render, f the
\* state with the batched setters applied.  An effect runs when one of its
\* dependencies changed.
Render(r, f) ==
    LET f1 == IF f.isPlaying # r.isPlaying THEN playbackEffect(f) ELSE f
        f2 == IF f1.volume # r.volume \/ f1.isMuted # r.isMuted
              THEN volumeEffect(f1) ELSE f1
    IN  f2

---------------------------------------------------------------------------
(* Timeouts of the host *)

\* Faulty variant of clearTimeout: the timeout stays live.
clearTimeout_Noop(f, id) == f

\* clearTimeout(id): the timeout with that id, if still live, never fires.
clearTimeout(f, id) ==
    [f EXCEPT !.timers = {t \in @ : t.id # id}]

\* The id setTimeout returns: one that names no live timeout and differs
\* from the id still stored in the ref.
NewTimeoutId(f) ==
    CHOOSE i \in 1..(Cardinality(f.timers) + 2) :
        /\ i # f.controlsTimeoutRef
        /\ \A t \in f.timers : t.id # i

\* setTimeout(callback, delay): the callback closes over the isPlaying of
\* the render that created it.
setTimeout(f, id, capturedIsPlaying, delay) ==
    [f EXCEPT !.timers = @ \cup {[id |-> id, left |-> delay,
                                  isPlaying |-> capturedIsPlaying]}]

---------------------------------------------------------------------------
(* Handlers.  r is the render the handler closes over, f the state being   *)
(* built by the event (setters batched, refs and the video written at      *)
(* once).                                                                  *)

\* Faulty variant of showControlsTemporarily: the previous timeout is not
\* cleared.
showControlsTemporarily_NoClear(r, f) ==
    LET f1 == [f EXCEPT !.isControlsVisible = TRUE]
        id == NewTimeoutId(f1)
        f3 == setTimeout(f1, id, r.isPlaying, HideDelay)
    IN  [f3 EXCEPT !.controlsTimeoutRef = id]

\* showControlsTemporarily (lines 106-118).
showControlsTemporarily(r, f) ==
    LET f1 == [f EXCEPT !.isControlsVisible = TRUE]
        f2 == IF f1.controlsTimeoutRef # NoTimeout
              THEN clearTimeout(f1, f1.controlsTimeoutRef) ELSE f1
        id == NewTimeoutId(f2)
        f3 == setTimeout(f2, id, r.isPlaying, HideDelay)
    IN  [f3 EXCEPT !.controlsTimeoutRef = id]

\* The callback given to setTimeout (lines 113-117); t is the timeout.
hideCallback(t, f) ==
    IF t.isPlaying THEN [f EXCEPT !.isControlsVisible = FALSE] ELSE f

\* Faulty variant of handlePlayPause: negates the value being built by the
\* event (an updater function) instead of the rendered one.
handlePlayPause_Updater(r, f) ==
    showControlsTemporarily(r, [f EXCEPT !.isPlaying = ~f.isPlaying])

\* handlePlayPause (lines 69-72).
handlePlayPause(r, f) ==
    showControlsTemporarily(r, [f EXCEPT !.isPlaying = ~r.isPlaying])

\* Faulty variant of handleVolumeChange: a positive volume does not unmute.
handleVolumeChange_NoUnmute(r, f, newVolume) ==
    LET f1 == [f EXCEPT !.volume = newVolume]
        f2 == IF newVolume = 0 THEN [f1 EXCEPT !.isMuted = TRUE] ELSE f1
    IN  showControlsTemporarily(r, f2)

\* handleVolumeChange (lines 74-83); newVolume is the parsed slider value.
handleVolumeChange(r, f, newVolume) ==
    LET f1 == [f EXCEPT !.volume = newVolume]
        f2 == IF newVolume = 0 THEN [f1 EXCEPT !.isMuted = TRUE]
              ELSE IF r.isMuted THEN [f1 EXCEPT !.isMuted = FALSE]
              ELSE f1
    IN  showControlsTemporarily(r, f2)

\* Faulty variant of handleMuteToggle: muting also zeroes the stored volume.
handleMuteToggle_ZeroVolume(r, f) ==
    showControlsTemporarily(r,
        [f EXCEPT !.isMuted = ~r.isMuted,
                  !.volume = IF r.isMuted THEN @ ELSE 0])

\* handleMuteToggle (lines 85-88).
handleMuteToggle(r, f) ==
    showControlsTemporarily(r, [f EXCEPT !.isMuted = ~r.isMuted])

\* handleProgressChange (lines 90-98).  Assigning NaN to video.currentTime
\* throws a TypeError: the handler ends there, after setProgress.
handleProgressChange(r, f, newProgress) ==
    LET f1 == [f EXCEPT !.progress = newProgress]
        target == TargetTime(newProgress, f1.video.duration)
    IN  IF target = NaN THEN f1
        ELSE showControlsTemporarily(r, videoSeek(f1, target))

\* handleVideoContainerInteraction (lines 120-122).
handleVideoContainerInteraction(r, f) ==
    showControlsTemporarily(r, f)

\* Faulty variant of handleTimeUpdate: the quotient is not scaled to a
\* percentage.
handleTimeUpdate_Fraction(f) ==
    [f EXCEPT !.currentTime = f.video.currentTime,
              !.progress = IF f.video.duration = NaN THEN NaN
                           ELSE f.video.currentTime \div f.video.duration]

\* handleTimeUpdate (lines 25-28).
handleTimeUpdate(f) ==
    [f EXCEPT !.currentTime = f.video.currentTime,
              !.progress = Percent(f.video.currentTime, f.video.duration)]

\* handleLoadedMetadata (lines 30-32).
handleLoadedMetadata(f) ==
    [f EXCEPT !.duration = f.video.duration]

\* Faulty variant of handleEnded: isPlaying is left as it is.
handleEnded_KeepPlaying(f) ==
    videoSeek([f EXCEPT !.progress = 0], 0)

\* handleEnded (lines 34-38).
handleEnded(f) ==
    videoSeek([f EXCEPT !.isPlaying = FALSE, !.progress = 0], 0)

\* Faulty variant of playCatch: the rejected play() is tried again.
playCatch_Retry(f) == videoPlay(f)

\* Faulty variant of playCatch: the rejection is swallowed.
playCatch_NoRollback(f) == f

\* The rejection callback of video.play() (line 56).
playCatch(f) ==
    [f EXCEPT !.isPlaying = FALSE]

---------------------------------------------------------------------------
(* formatTime (lines 100-104).  Texts are sequences of characters. *)

Digits == <<"0", "1", "2", "3", "4", "5", "6", "7", "8", "9">>

\* `${n}` for a whole number n >= 0: its decimal digits.
RECURSIVE NumberText(_)
NumberText(n) ==
    IF n < 10 THEN <<Digits[n + 1]>>
    ELSE NumberText(n \div 10) \o <<Digits[(n % 10) + 1]>>

\* Faulty variant of formatTime: the seconds are not padded.
formatTime_NoPadding(tenths) ==
    LET minutes == tenths \div 600
        seconds == (tenths % 600) \div 10
    IN  NumberText(minutes) \o <<":">> \o NumberText(seconds)

\* formatTime; the argument is given in tenths of a second, so that
\* Math.floor(t / 60) is tenths \div 600 and Math.floor(t % 60) is
\* (tenths % 600) \div 10.
formatTime(tenths) ==
    LET minutes == tenths \div 600
        seconds == (tenths % 600) \div 10
    IN  NumberText(minutes) \o <<":">>
          \o (IF seconds < 10 THEN <<"0">> ELSE <<>>) \o NumberText(seconds)

---------------------------------------------------------------------------
(* Initial state: the first render and the effects of the mount *)

\* The useState initialisers (lines 12-19) and a fresh <video>.
FirstRender(auto) ==
    [isPlaying |-> auto, progress |-> 0, volume |-> InitialVolume,
     isMuted |-> FALSE, duration |-> 0, currentTime |-> 0,
     isControlsVisible |-> TRUE, controlsTimeoutRef |-> NoTimeout,
     timers |-> {},
     video |-> [playing |-> FALSE, currentTime |-> 0, duration |-> NaN,
                volume |-> 100],
     playPromises |-> [open |-> 0, aborted |-> 0],
     lastCommand |-> "none", lastSeeks |-> {}]

\* On mount every effect runs once.
Mount(auto) == volumeEffect(playbackEffect(FirstRender(auto)))

ComponentInit ==
    /\ autoPlay \in BOOLEAN
    /\ mounted = TRUE
    /\ listeners = Notifications
    /\ isPlaying = Mount(autoPlay).isPlaying
    /\ progress = Mount(autoPlay).progress
    /\ volume = Mount(autoPlay).volume
    /\ isMuted = Mount(autoPlay).isMuted
    /\ duration = Mount(autoPlay).duration
    /\ currentTime = Mount(autoPlay).currentTime
    /\ isControlsVisible = Mount(autoPlay).isControlsVisible
    /\ controlsTimeoutRef = Mount(autoPlay).controlsTimeoutRef
    /\ timers = Mount(autoPlay).timers
    /\ video = Mount(autoPlay).video
    /\ playPromises = Mount(autoPlay).playPromises
    /\ lastCommand = Mount(autoPlay).lastCommand
    /\ lastSeeks = Mount(autoPlay).lastSeeks
    /\ lastEvent = "mount"
    /\ onlyPointerInput = TRUE
    /\ everPlayFailed = FALSE

Init ==
    /\ ComponentInit
    /\ timeInTenths = 0
    /\ timeText = <<>>

---------------------------------------------------------------------------
(* Events *)

\* The state an event starts from: nothing sent to the video yet.
Start == [State EXCEPT !.lastCommand = "none", !.lastSeeks = {}]

Pending(s) == s.playPromises.open + s.playPromises.aborted

\* An event of the mounted component whose handlers produced f: re-render,
\* run the effects, record the event.
Dispatch(name, f, otherInput) ==
    /\ mounted
    /\ Pending(Render(State, f)) <= MaxPending
    /\ Install(Render(State, f))
    /\ lastEvent' = name
    /\ onlyPointerInput' = (onlyPointerInput /\ ~otherInput)
    /\ UNCHANGED <<autoPlay, mounted, listeners, everPlayFailed,
                   timeInTenths, timeText>>

\* Click on the container outside its buttons and the controls (line 129).
ClickContainer ==
    Dispatch("clickContainer", handlePlayPause(State, Start), TRUE)

\* Click on the play/pause button of the controls row (line 197); the
\* controls overlay stops the propagation (line 178).
ClickPlayPauseButton ==
    Dispatch("clickPlayPause", handlePlayPause(State, Start), TRUE)

\* Click on the play overlay button (lines 289-301), rendered while paused:
\* its handler runs, then the click bubbles to the container's (line 129).
ClickPlayOverlay ==
    /\ ~isPlaying
    /\ Dispatch("clickPlayOverlay",
                handlePlayPause(State, handlePlayPause(State, Start)), TRUE)

\* Click on the mute button of the controls row (line 228).
ClickMuteButton ==
    Dispatch("clickMute", handleMuteToggle(State, Start), TRUE)

\* Click on the top mute button (line 132): its handler runs, then the
\* click bubbles to the container's handlePlayPause (line 129).
ClickTopMuteButton ==
    Dispatch("clickTopMute",
             handlePlayPause(State, handleMuteToggle(State, Start)), TRUE)

\* Change of the volume slider (line 276).
ChangeVolume(v) ==
    Dispatch("changeVolume", handleVolumeChange(State, Start, v), TRUE)

\* Change of the scrub slider (line 187).
ChangeProgress(p) ==
    Dispatch("changeProgress", handleProgressChange(State, Start, p), TRUE)

\* Pointer movement or touch on the container (lines 127-128).
PointerActivity(e) ==
    Dispatch(e, handleVideoContainerInteraction(State, Start), FALSE)

---------------------------------------------------------------------------
(* Notifications of the media element (subscribed at lines 40-42) *)

\* The element reports its position: t is the position it has reached by
\* playing, or the one it already had (after a seek).
TimeUpdate(t) ==
    /\ "timeupdate" \in listeners
    /\ video.duration # NaN
    /\ \/ t = video.currentTime
       \/ video.playing /\ t > video.currentTime /\ t <= video.duration
    /\ Dispatch("timeupdate",
                handleTimeUpdate([Start EXCEPT !.video.currentTime = t]), FALSE)

\* The element has read the metadata of the resource: its duration is d.
LoadedMetadata(d) ==
    /\ "loadedmetadata" \in listeners
    /\ video.duration = NaN
    /\ Dispatch("loadedmetadata",
                handleLoadedMetadata([Start EXCEPT !.video.duration = d]), FALSE)

\* Playback reaches the end of the resource: the element stops at its
\* duration and notifies.
Ended ==
    /\ "ended" \in listeners
    /\ video.playing
    /\ Dispatch("ended",
                handleEnded([Start EXCEPT !.video.playing = FALSE,
                                          !.video.currentTime = video.duration]),
                FALSE)

---------------------------------------------------------------------------
(* Settlement of the play() promises *)

\* The element starts playing: every open play() promise is fulfilled
\* (no callback is attached to the fulfilment).
PlayResolved ==
    /\ mounted
    /\ playPromises.open > 0
    /\ video.duration # NaN
    /\ video' = [video EXCEPT !.playing = TRUE]
    /\ playPromises' = [playPromises EXCEPT !.open = 0]
    /\ lastCommand' = "none"
    /\ lastSeeks' = {}
    /\ lastEvent' = "playResolved"
    /\ UNCHANGED <<autoPlay, mounted, listeners, isPlaying, progress, volume,
                   isMuted, duration, currentTime, isControlsVisible,
                   controlsTimeoutRef, timers, onlyPointerInput, everPlayFailed,
                   timeInTenths, timeText>>

\* The state after one promise of the given kind is rejected and its catch
\* callback has run; the setter of an unmounted component does nothing.
AfterRejection(kind) ==
    LET f0 == [Start EXCEPT !.playPromises[kind] = @ - 1]
    IN  IF mounted THEN Render(State, playCatch(f0)) ELSE f0

\* A play() promise is rejected: an open one because the element cannot
\* play, an aborted one because pause() was called meanwhile.
PlayRejected(kind) ==
    /\ playPromises[kind] > 0
    /\ Install(AfterRejection(kind))
    /\ lastEvent' = "playRejected"
    /\ everPlayFailed' = TRUE
    /\ UNCHANGED <<autoPlay, mounted, listeners, onlyPointerInput,
                   timeInTenths, timeText>>

---------------------------------------------------------------------------
(* Time and timeouts *)

\* d ms pass; no live timeout is overdue.
Tick(d) ==
    /\ timers # {}
    /\ \A t \in timers : d <= t.left
    /\ timers' = {[t EXCEPT !.left = @ - d] : t \in timers}
    /\ lastCommand' = "none"
    /\ lastSeeks' = {}
    /\ lastEvent' = "tick"
    /\ UNCHANGED <<autoPlay, mounted, listeners, isPlaying, progress, volume,
                   isMuted, duration, currentTime, isControlsVisible,
                   controlsTimeoutRef, video, playPromises, onlyPointerInput,
                   everPlayFailed, timeInTenths, timeText>>

\* The state after the due timeout t has fired; the setter of an unmounted
\* component does nothing.
AfterTimeout(t) ==
    LET f0 == [Start EXCEPT !.timers = @ \ {t}]
    IN  IF mounted THEN Render(State, hideCallback(t, f0)) ELSE f0

\* A due timeout fires.  Nothing resets controlsTimeoutRef.
TimeoutFires(t) ==
    /\ t.left = 0
    /\ Install(AfterTimeout(t))
    /\ lastEvent' = "timeout"
    /\ UNCHANGED <<autoPlay, mounted, listeners, onlyPointerInput,
                   everPlayFailed, timeInTenths, timeText>>

---------------------------------------------------------------------------
(* Unmount: the cleanup of the first effect (lines 44-48) is the only      *)
(* cleanup the component has.                                              *)

\* Faulty variant of removeEventListeners: "ended" stays subscribed.
removeEventListeners_KeepEnded(ls) ==
    (ls \ {"timeupdate"}) \ {"loadedmetadata"}

\* The three removeEventListener calls of the cleanup (lines 45-47).
removeEventListeners(ls) ==
    ((ls \ {"timeupdate"}) \ {"loadedmetadata"}) \ {"ended"}

Unmount ==
    /\ mounted
    /\ mounted' = FALSE
    /\ listeners' = removeEventListeners(listeners)
    /\ lastCommand' = "none"
    /\ lastSeeks' = {}
    /\ lastEvent' = "unmount"
    /\ UNCHANGED <<autoPlay, isPlaying, progress, volume, isMuted, duration,
                   currentTime, isControlsVisible, controlsTimeoutRef, timers,
                   video, playPromises, onlyPointerInput, everPlayFailed,
                   timeInTenths, timeText>>

---------------------------------------------------------------------------

Next ==
    \/ ClickContainer
    \/ ClickPlayPauseButton
    \/ ClickPlayOverlay
    \/ ClickMuteButton
    \/ ClickTopMuteButton
    \/ \E v \in Volumes : ChangeVolume(v)
    \/ \E p \in Percents : ChangeProgress(p)
    \/ \E e \in {"mousemove", "touchstart"} : PointerActivity(e)
    \/ \E t \in Times : TimeUpdate(t)
    \/ \E d \in Durations : LoadedMetadata(d)
    \/ Ended
    \/ PlayResolved
    \/ \E kind \in {"open", "aborted"} : PlayRejected(kind)
    \/ \E d \in TickSteps : Tick(d)
    \/ \E t \in timers : TimeoutFires(t)
    \/ Unmount

Spec == Init /\ [][Next]_vars

---------------------------------------------------------------------------
(* formatTime on its own: the argument is drawn, then formatted *)

FormatInit ==
    /\ ComponentInit
    /\ ~autoPlay
    /\ timeInTenths \in FormatInputs
    /\ timeText = <<>>

Format ==
    /\ timeText = <<>>
    /\ timeText' = formatTime(timeInTenths)
    /\ UNCHANGED <<autoPlay, mounted, listeners, isPlaying, progress, volume,
                   isMuted, duration, currentTime, isControlsVisible,
                   controlsTimeoutRef, timers, video, playPromises,
                   lastCommand, lastSeeks, lastEvent, onlyPointerInput,
                   everPlayFailed, timeInTenths>>

FormatSpec == FormatInit /\ [][Format]_vars

TypeOK ==
    /\ autoPlay \in BOOLEAN /\ mounted \in BOOLEAN
    /\ listeners \subseteq Notifications
    /\ isPlaying \in BOOLEAN /\ isMuted \in BOOLEAN
    /\ isControlsVisible \in BOOLEAN
    /\ volume \in Volumes
    /\ progress \in 0..100 \cup {NaN}
    /\ duration \in {0} \cup Durations
    /\ currentTime \in Times
    /\ \A t \in timers : t.left \in 0..HideDelay /\ t.isPlaying \in BOOLEAN
    /\ video.volume \in 0..100
    /\ playPromises.open + playPromises.aborted <= MaxPending
    /\ timeInTenths \in FormatInputs
    /\ timeText \in {<<>>, formatTime(timeInTenths)}

---------------------------------------------------------------------------
(* Properties *)

\* C1: when the rejection of a play() promise is delivered to the mounted
\* component, isPlaying is false afterwards and the component is still
\* operable: a click that toggles playback is accepted.
C1_PlayFailureRollsBack ==
    (mounted /\ lastEvent = "playRejected")
        => (~isPlaying /\ ENABLED ClickContainer)

\* A rejection has rolled isPlaying back from true (the effect paused the
\* video).
C1_Witness ==
    /\ mounted /\ lastEvent = "playRejected"
    /\ ~isPlaying /\ lastCommand = "pause"

\* C2: whenever the controls go from visible to hidden, isPlaying is true
\* at that moment.
C2_HideOnlyWhilePlaying ==
    [][(isControlsVisible /\ ~isControlsVisible') => isPlaying]_vars

\* C3: while playing, once show() has been called and the idle interval has
\* elapsed with nothing rescheduling the timeout (no timeout is live), the
\* controls are hidden.
C3_IdleAutoHide ==
    (mounted /\ isPlaying /\ controlsTimeoutRef # NoTimeout /\ timers = {})
        => ~isControlsVisible

\* The events whose handlers reach showControlsTemporarily.
ShowEvent ==
    \/ ClickContainer
    \/ ClickPlayPauseButton
    \/ ClickPlayOverlay
    \/ ClickMuteButton
    \/ ClickTopMuteButton
    \/ \E v \in Volumes : ChangeVolume(v)
    \/ \E p \in Percents : video.duration # NaN /\ ChangeProgress(p)
    \/ \E e \in {"mousemove", "touchstart"} : PointerActivity(e)

\* The live timeouts whose callback hides the controls.
PendingHides(ts) == {t \in ts : t.isPlaying}

C5_EndedResets ==
    (mounted /\ lastEvent = "ended")
        => (~isPlaying /\ currentTime = 0 /\ progress = 0
            /\ video.currentTime = 0)

\* The autoPlay scenario: mounted with autoPlay, the play() has failed and
\* the only user input so far is pointer movement or touch.
AutoPlayFailed ==
    mounted /\ autoPlay /\ onlyPointerInput /\ everPlayFailed

\* C6: in the autoPlay scenario, from the delivery of the failure on,
\* isPlaying is false and no step hides the controls.
C6_AutoPlayFailure ==
    [][AutoPlayFailed' =>
         (~isPlaying' /\ (isControlsVisible => isControlsVisible'))]_vars

\* A click on a play/pause control or on the container.
TogglePlayClick ==
    ClickContainer \/ ClickPlayPauseButton \/ ClickPlayOverlay

\* C7: one click on a play/pause control or on the container negates
\* isPlaying, and the video receives play() for true, pause() for false.
C7_ToggleFlips ==
    [][TogglePlayClick =>
         /\ isPlaying' = ~isPlaying
         /\ lastCommand' = IF isPlaying' THEN "play" ELSE "pause"]_vars

\* The play overlay button has started playback.
C7_Witness ==
    lastEvent = "clickPlayOverlay" /\ isPlaying /\ lastCommand = "play"

\* C8: setVolume(0) mutes; setVolume(x), x > 0, unmutes when muted and
\* leaves unmuted otherwise; the stored volume becomes the given value.
C8_VolumeMuteRule ==
    [][\A v \in Volumes :
         ChangeVolume(v) =>
           /\ volume' = v
           /\ (v = 0 => isMuted')
           /\ (v > 0 /\ isMuted => ~isMuted')
           /\ (v > 0 /\ ~isMuted => ~isMuted')]_vars

\* The volume slider was dragged to 0.
C8_Witness ==
    lastEvent = "changeVolume" /\ volume = 0 /\ isMuted

\* C9: the volume of the video is isMuted ? 0 : volume.
C9_EffectiveVolume ==
    video.volume = IF isMuted THEN 0 ELSE volume

\* Muted with a positive stored volume.
C9_Witness ==
    lastEvent = "clickMute" /\ isMuted /\ volume > 0 /\ video.volume = 0

\* A click on either mute button.
MuteClick == ClickMuteButton \/ ClickTopMuteButton

\* The state after one more mute toggle.
AfterMuteToggle == Render(State, handleMuteToggle(State, Start))

\* C10: a mute toggle negates isMuted and keeps the stored volume; a
\* second one right after it restores isMuted, the volume still unchanged.
C10_MuteToggle ==
    [][MuteClick =>
         /\ isMuted' = ~isMuted
         /\ volume' = volume
         /\ AfterMuteToggle'.isMuted = isMuted
         /\ AfterMuteToggle'.volume = volume]_vars

\* Muted by a click, the stored volume kept.
C10_Witness ==
    lastEvent \in {"clickMute", "clickTopMute"} /\ isMuted
    /\ volume = InitialVolume

\* C11: seekTo(p) sets progress to p and seeks the video to p / 100 * d,
\* d its duration; while the duration is unknown (0) the seek goes to 0.
C11_SeekTo ==
    [][\A p \in Percents :
         ChangeProgress(p) =>
           /\ progress' = p
           /\ lastSeeks' = {IF duration = 0 THEN 0
                            ELSE (p * duration) \div 100}]_vars

\* progress is the percentage of duration that currentTime is, 0 while the
\* duration is unknown.
ProgressInSync ==
    progress = IF duration > 0 THEN Percent(currentTime, duration) ELSE 0

C13_UnmountCancelsTimer ==
    ~mounted => timers = {}

\* The events that run handlePlayPause.
PlayPauseEvents ==
    {"clickContainer", "clickPlayPause", "clickPlayOverlay", "clickTopMute"}

\* C14: the video receives play() only at the mount with autoPlay, and in
\* the step of a user click that runs handlePlayPause and turns isPlaying
\* from false to true; no other event, a rejection included, issues play().
C14_NoAutomaticRetry ==
    /\ lastCommand = "play" => autoPlay /\ isPlaying
    /\ [][lastCommand' = "play" =>
            /\ lastEvent' \in PlayPauseEvents
            /\ ~isPlaying /\ isPlaying']_vars

\* After a delivered failure, a click has issued a fresh play().
C14_Witness ==
    /\ everPlayFailed /\ lastEvent = "clickContainer"
    /\ isPlaying /\ lastCommand = "play"

\* M:SS for a whole number t of seconds: the minutes in decimal, a colon,
\* the tens and the units of the seconds.
MinutesSeconds(t) ==
    NumberText(t \div 60)
      \o <<":", Digits[((t % 60) \div 10) + 1], Digits[(t % 10) + 1]>>

\* C15: formatTime renders t seconds (a fraction of a second is dropped) as
\* M:SS, M = floor(t / 60) with no hour part, SS = t mod 60 on exactly two
\* digits; 125 gives "2:05", 59 gives "0:59", 3725 gives "62:05".
C15_FormatTime ==
    timeText # <<>> =>
      LET t == timeInTenths \div 10
      IN  /\ timeText = MinutesSeconds(t)
          /\ t = 125 => timeText = <<"2", ":", "0", "5">>
          /\ t = 59 => timeText = <<"0", ":", "5", "9">>
          /\ t = 3725 => timeText = <<"6", "2", ":", "0", "5">>

\* 125 seconds have been formatted.
C15_Witness ==
    timeInTenths = 1250 /\ timeText = <<"2", ":", "0", "5">>

\* C16: in every reachable state at most one timeout is live, and it is the
\* one whose id is stored in controlsTimeoutRef; so one idle period sees at
\* most one firing.
C16_OnePendingTimer ==
    /\ Cardinality(timers) <= 1
    /\ \A t \in timers : t.id = controlsTimeoutRef

\* A second show() has replaced the timeout of the first.
C16_Witness ==
    /\ lastEvent = "mousemove"
    /\ controlsTimeoutRef = 2
    /\ Cardinality(timers) = 1

\* C17: while the component is mounted it is subscribed to the three
\* notifications; once unmounted, also before the metadata has loaded, it is
\* subscribed to none and no notification step can be taken.
C17_SubscriptionLifecycle ==
    /\ mounted => listeners = Notifications
    /\ ~mounted =>
         /\ listeners = {}
         /\ \A t \in Times : ~ENABLED TimeUpdate(t)
         /\ \A d \in Durations : ~ENABLED LoadedMetadata(d)
         /\ ~ENABLED Ended

\* Unmounted before the metadata has loaded.
C17_Witness ==
    /\ ~mounted /\ lastEvent = "unmount"
    /\ video.duration = NaN
    /\ listeners = {}

\* The events that the claim says leave isPlaying alone.
FrameEvents ==
    {"clickMute", "clickTopMute", "changeVolume", "changeProgress",
     "mousemove", "touchstart", "timeupdate", "loadedmetadata"}

\* C18: a mute toggle from either mute button, a volume change, a seek,
\* pointer movement or touch, and a time-advanced or metadata-ready
\* notification leave isPlaying unchanged.
C18_IsPlayingFrame ==
    [][lastEvent' \in FrameEvents => isPlaying' = isPlaying]_vars

\* C19: in every state of the mounted component with no unsettled play()
\* promise, isPlaying is true exactly when the video is playing.
C19_StateResourceAgreement ==
    (mounted /\ Pending(State) = 0) => (isPlaying <=> video.playing)

\* A late rejection has been delivered, a later click has started playback,
\* and nothing is pending.
C19_Witness ==
    /\ mounted /\ everPlayFailed
    /\ Pending(State) = 0
    /\ isPlaying /\ video.playing

=============================================================================
